---- MODULE Spec2Model ----
(***************************************************************************)
(* A model of pyaci's query engine (pyaci/core/query.py, class Request)    *)
(* and of the lazy record (pyaci/core/response.py, class Record).          *)
(*                                                                         *)
(* Spec       : one Request, consumed through the generator Request.get()  *)
(*              against an HTTP session serving a limit/offset collection. *)
(* CallSpec   : one Request issuing a single call (_make_call through      *)
(*              get/post/put/patch/delete, get_version, get_openapi).      *)
(* RecordSpec : one Record and the field accesses made on it.              *)
(***************************************************************************)
EXTENDS Integers, Sequences, FiniteSets, TLC

\* ------------------------------------------------------------------ bounds
MaxCount  == 5      \* collection sizes 0..MaxCount
MaxPage   == 2      \* server default page sizes 1..MaxPage
MaxLimit  == 2      \* configured limits 0..MaxLimit
MaxOffset == 1      \* configured offsets 0..MaxOffset
MaxFields == 2      \* keys of a bare JSON object 0..MaxFields
PoolSize  == 2      \* page fetches in flight at once
MaxValue  == 2      \* field values 1..MaxValue
MaxGets   == 3      \* hydration GETs issued for one Record
MaxBase   == 3      \* characters of the base argument 1..MaxBase
MaxKey    == 2      \* keys 0..MaxKey

\* Python's None for limit / offset (query.py: limit=None, offset=None).
None == -1

Counts    == 0..MaxCount
PageSizes == 1..MaxPage
Limits    == {None} \cup (0..MaxLimit)
Offsets   == {None} \cup (0..MaxOffset)
Tokens    == {"", "abc"}               \* "" : no token configured
Filters   == {{}, {"name"}}            \* filters or None
Extras    == {{}, {"brief"}}           \* get(add_params=...)
Shapes    == {"collection", "list", "object"}
Statuses  == {200, 204, 403, 404, 409, 500}
Verbs     == {"get", "post", "put", "patch", "delete"}

Min(a, b) == IF a < b THEN a ELSE b
Max(a, b) == IF a > b THEN a ELSE b

VARIABLES
    \* the Request object
    base, key, request_url, limit, offset, threading, token, filters, count,
    \* the HTTP session: the collection it serves, its API-Version header and
    \* the calls it has received
    srvCount, srvPage, srvShape, apiVersion, calls,
    \* the method of the Request the caller invoked
    method,
    \* the generator Request.get(add_params)
    pc, add_params, req, first_run, iter, after, yielded, err,
    \* the page fetches of concurrent_get
    futures,
    \* the outcome of a single call
    result,
    \* the response the session returned last
    resp,
    \* a Record, the detail payload its url serves and the accesses made on it
    fields, shallow, url, endpoint, has_details, detail, gets, last

reqVars == <<base, key, request_url, limit, offset, threading, token, filters>>
recVars == <<fields, shallow, url, endpoint, has_details, detail, gets, last>>
srvVars == <<srvCount, srvPage, srvShape, apiVersion>>
genVars == <<pc, add_params, req, first_run, iter, after, yielded, err, count>>
vars == <<base, key, request_url, limit, offset, threading, token, filters, count,
          srvCount, srvPage, srvShape, apiVersion, calls, method,
          pc, add_params, req, first_run, iter, after, yielded, err,
          futures, result, resp,
          fields, shallow, url, endpoint, has_details, detail, gets, last>>

\* ------------------------------------------------------- the HTTP session
\* response.ok of the session's response object.
Ok(status) == status >= 200 /\ status < 300

\* The URLs the engine requests: its own url (no url_override, or a null one),
\* the `next` link a page carries, and the discovery URLs built on base.
SelfUrl == [to |-> "url", limit |-> None, offset |-> None]
NextUrl(next) ==
    IF next = <<>> THEN SelfUrl
    ELSE [to |-> "next", limit |-> next[1], offset |-> next[2]]
BaseUrl(suffix) == [to |-> "base/" \o suffix, limit |-> None, offset |-> None]

\* The limit a limit/offset server applies: the default page size when the
\* limit parameter is absent or not positive.
EffLimit(l) == IF l <= 0 THEN srvPage ELSE l

\* The page a limit/offset server returns for ?limit=l&offset=o: items are
\* named by their position 0..count-1 in server order.
Page(l, o) ==
    LET e   == EffLimit(l)
        off == IF o = None THEN 0 ELSE o
        n   == Max(Min(off + e, srvCount) - off, 0)
    IN  [count   |-> srvCount,
         results |-> [i \in 1..n |-> off + i - 1],
         next    |-> IF off + e < srvCount THEN <<e, off + e>> ELSE <<>>]

\* The body served for a GET of the URL `to` with query parameters `params`.
Serve(to, params) ==
    IF to = SelfUrl THEN Page(params.limit, params.offset)
    ELSE Page(to.limit, to.offset)

NoReq == [count |-> 0, results |-> <<>>, next |-> <<>>]

\* a response as the engine sees it: `req.ok`, and whether `req.json()` decodes
Resp(status, valid) == [ok |-> Ok(status), valid |-> valid]
NoResp == [ok |-> FALSE, valid |-> FALSE]
NoParams == [filters |-> {}, extra |-> {}, limit |-> None, offset |-> None]

\* ------------------------------------------------------ Request._make_call
\* headers of _make_call
Headers(verb, data) ==
    [type |-> IF verb \in {"post", "put"} \/ (verb = "delete" /\ data)
              THEN "Content-Type" ELSE "accept",
     authorization |-> IF token # "" THEN "Token " \o token ELSE ""]

\* params of _make_call: nothing with url_override, else filters then add_params
Params(url_override, extra, l, o) ==
    IF url_override # SelfUrl THEN NoParams
    ELSE [filters |-> filters, extra |-> extra, limit |-> l, offset |-> o]

\* the call handed to the session
Call(verb, url_override, extra, l, o, data) ==
    [verb |-> verb, url |-> url_override,
     params |-> Params(url_override, extra, l, o),
     headers |-> Headers(verb, data), data |-> data]

\* RequestError.__init__ decodes the body for its message unless the status is 404
ErrorDecodes(status) == status # 404

\* how _make_call ends for a response with `status` and a body that is
\* (valid) or is not JSON
OutcomeAnyVerb(verb, status, valid) ==
    IF status = 409 THEN "AllocationError"
    ELSE IF verb = "delete"
         THEN IF Ok(status) THEN "True" ELSE "RequestError"
    ELSE IF Ok(status)
         THEN IF valid THEN "json" ELSE "ContentError"
    ELSE "RequestError"
OutcomeNoDelete(verb, status, valid) ==
    IF status = 409 /\ verb = "post" THEN "AllocationError"
    ELSE IF Ok(status)
         THEN IF valid THEN "json" ELSE "ContentError"
    ELSE "RequestError"
Outcome(verb, status, valid) ==
    IF status = 409 /\ verb = "post" THEN "AllocationError"
    ELSE IF verb = "delete"
         THEN IF Ok(status) THEN "True" ELSE "RequestError"
    ELSE IF Ok(status)
         THEN IF valid THEN "json" ELSE "ContentError"
    ELSE "RequestError"

\* ---------------------------------------------------------------- calc_pages
calc_pagesBug(lim, cnt) == cnt \div lim
calc_pages(lim, cnt) == (cnt \div lim) + (IF lim % cnt > 0 THEN 1 ELSE 0)

\* ------------------------------------------------------------- Request.get
\* add_params of the first call
FirstLimit == IF add_params = {} /\ limit # None THEN limit ELSE None
FirstOffset ==
    IF add_params = {} /\ limit # None /\ limit # 0 /\ offset # None
    THEN offset ELSE None

\* `if self.offset is not None`: the caller pinned one page
SinglePageBug == offset # None /\ offset # 0
SinglePage == offset # None

\* the truth of `req["next"]` / `req.get("next")`
HasNextBug(r) == r.results # <<>>
HasNext(r) == r.next # <<>>

Gen(p, r, it, af, fr) ==
    /\ pc' = p
    /\ req' = r
    /\ iter' = it
    /\ after' = af
    /\ first_run' = fr

\* the exception _make_call raises for `out`, with what its construction did
Error(out, status) ==
    [kind |-> out, status |-> status,
     decoded |-> out = "ContentError" \/ (out = "RequestError" /\ ErrorDecodes(status))]
NoError == [kind |-> "", status |-> 0, decoded |-> FALSE]

Raise(e) ==
    /\ pc' = "raised"
    /\ err' = e
    /\ UNCHANGED <<req, iter, after, first_run>>

\* the futures concurrent_get submits, one per page offset
Submitted(page_size, page_offsets) ==
    [i \in 1..Len(page_offsets) |->
        [offset |-> page_offsets[i], limit |-> page_size,
         state |-> "queued", results |-> <<>>, err |-> NoError, early |-> FALSE]]

\* the first resumption of the generator: the first call and its classification
Start ==
    /\ pc = "created"
    /\ \E status \in Statuses, valid \in BOOLEAN, nf \in 0..MaxFields :
        LET call == Call("get", SelfUrl, add_params, FirstLimit, FirstOffset, FALSE)
            out  == Outcome("get", status, valid)
            r    == Serve(SelfUrl, call.params)
            page_size == Len(r.results)
            one_more == /\ out = "json" /\ srvShape = "collection"
                        /\ ~SinglePage /\ threading /\ HasNext(r)
                        /\ page_size # 0
                        /\ calc_pages(page_size, r.count) = 1
            second == Call("get", NextUrl(r.next), {}, None, None, FALSE)
        IN  /\ calls' = IF one_more THEN calls \o <<call, second>>
                        ELSE Append(calls, call)
            /\ IF one_more THEN TRUE ELSE resp' = Resp(status, valid)
            /\ IF out # "json"
               THEN Raise(Error(out, status)) /\ UNCHANGED <<count, futures>>
               ELSE IF srvShape = "list"
               THEN /\ count' = srvCount
                    /\ Gen("running", NoReq, [i \in 1..srvCount |-> i - 1], "stop", FALSE)
                    /\ UNCHANGED <<err, futures>>
               ELSE IF srvShape = "object"
               THEN /\ count' = nf
                    /\ Gen("running", NoReq, <<0>>, "stop", FALSE)
                    /\ UNCHANGED <<err, futures>>
               ELSE /\ count' = r.count
                    /\ IF SinglePage
                       THEN Gen("running", r, r.results, "stop", FALSE)
                            /\ UNCHANGED <<err, futures>>
                       ELSE IF ~threading
                       THEN Gen("running", r, r.results, "while", TRUE)
                            /\ UNCHANGED <<err, futures>>
                       ELSE IF ~HasNext(r)
                       THEN Gen("running", r, r.results, "stop", FALSE)
                            /\ UNCHANGED <<err, futures>>
                       ELSE IF page_size = 0
                       THEN Raise(Error("ZeroDivisionError", status))
                            /\ UNCHANGED futures
                       ELSE IF one_more
                       THEN /\ \E s2 \in Statuses, v2 \in BOOLEAN :
                                LET out2 == Outcome("get", s2, v2)
                                    r2   == Serve(second.url, second.params)
                                IN  /\ resp' = Resp(s2, v2)
                                    /\ IF out2 = "json"
                                       THEN Gen("running", r2, r.results \o r2.results,
                                                "stop", FALSE) /\ UNCHANGED err
                                       ELSE Raise(Error(out2, s2))
                            /\ UNCHANGED futures
                       ELSE LET pages == calc_pages(page_size, r.count)
                                page_offsets == [i \in 1..(pages - 1) |-> i * page_size]
                            IN  /\ Gen("fanout", r, r.results, "stop", FALSE)
                                /\ futures' = Submitted(page_size, page_offsets)
                                /\ UNCHANGED err
    /\ method' = "get"
    /\ UNCHANGED <<recVars, reqVars, srvVars, add_params, yielded, result>>

\* a yield that does not wait for the page fetches in flight
YieldBug ==
    /\ pc \in {"running", "suspended", "fanout"}
    /\ iter # <<>>
    /\ yielded' = Append(yielded, Head(iter))
    /\ iter' = Tail(iter)
    /\ pc' = IF pc = "fanout" THEN "fanout" ELSE "suspended"
    /\ UNCHANGED <<recVars, reqVars, srvVars, calls, method, add_params, req, first_run,
                   after, err, count, futures, result, resp>>

\* a yield: the caller receives the next element of the loop in progress
Yield ==
    /\ pc \in {"running", "suspended"}
    /\ iter # <<>>
    /\ yielded' = Append(yielded, Head(iter))
    /\ iter' = Tail(iter)
    /\ pc' = "suspended"
    /\ UNCHANGED <<recVars, reqVars, srvVars, calls, method, add_params, req, first_run,
                   after, err, count, futures, result, resp>>

\* `for i in req["results"]: yield i` has delivered every item of the page
PageConsumedBug == Len(iter) <= 1
PageConsumed == iter = <<>>

\* `self.limit or req["count"]`
LimitOrBug(cnt) == limit
LimitOr(cnt) == IF limit = None \/ limit = 0 THEN cnt ELSE limit

\* `len(req["results"])`, the offset of the first follow-up
SeenBug(r) == Max(Len(r.results) - 1, 0)
Seen(r) == Len(r.results)

\* sequential mode, `while req["next"]`: one more call, then its results
FollowUp ==
    /\ pc \in {"running", "suspended"}
    /\ PageConsumed
    /\ after = "while"
    /\ HasNext(req)
    /\ \E status \in Statuses, valid \in BOOLEAN :
        LET call == IF first_run
                    THEN Call("get", SelfUrl, {}, LimitOr(req.count),
                              Seen(req), FALSE)
                    ELSE Call("get", NextUrl(req.next), {}, None, None, FALSE)
            out  == Outcome("get", status, valid)
            r    == Serve(call.url, call.params)
        IN  /\ calls' = Append(calls, call)
            /\ resp' = Resp(status, valid)
            /\ IF out = "json"
               THEN Gen("running", r, r.results, "while", FALSE) /\ UNCHANGED err
               ELSE Raise(Error(out, status))
    /\ UNCHANGED <<recVars, reqVars, srvVars, method, add_params, yielded, count, futures,
                   result>>

\* the generator returns: the loop in progress is over and nothing follows it
Exhaust ==
    /\ pc \in {"running", "suspended"}
    /\ PageConsumed
    /\ after = "stop" \/ ~HasNext(req)
    /\ pc' = "done"
    /\ UNCHANGED <<recVars, reqVars, srvVars, calls, method, add_params, req, first_run,
                   iter, after, yielded, err, count, futures, result, resp>>

\* ------------------------------------------------- Request.concurrent_get
InFlight == {i \in DOMAIN futures : futures[i].state = "running"}
Failed == {i \in DOMAIN futures : futures[i].state = "failed"}
\* fetch i completes while a fetch submitted before it is still in flight
Early(i) == \E j \in InFlight : j < i

\* a worker of the pool takes the oldest queued page fetch and issues its call;
\* after a failure the fetches still queued are cancelled
Submit ==
    /\ pc = "fanout"
    /\ Cardinality(InFlight) < PoolSize
    /\ Failed = {}
    /\ \E i \in DOMAIN futures :
        /\ futures[i].state = "queued"
        /\ \A j \in 1..(i - 1) : futures[j].state # "queued"
        /\ futures' = [futures EXCEPT ![i].state = "running"]
        /\ calls' = Append(calls, Call("get", SelfUrl, {}, futures[i].limit,
                                       futures[i].offset, FALSE))
    /\ UNCHANGED <<recVars, reqVars, srvVars, genVars, method, result, resp>>

\* a page fetch in flight completes, in any order; the first failure observed
\* is the one kept for the caller
Complete ==
    /\ pc = "fanout"
    /\ \E i \in InFlight, status \in Statuses, valid \in BOOLEAN :
        LET out == Outcome("get", status, valid)
            r   == Page(futures[i].limit, futures[i].offset)
        IN  /\ futures' = IF out = "json"
                          THEN [futures EXCEPT ![i].state = "done",
                                               ![i].results = r.results,
                                               ![i].early = Early(i)]
                          ELSE [futures EXCEPT ![i].state = "failed",
                                               ![i].err = IF Failed = {}
                                                          THEN Error(out, status)
                                                          ELSE NoError,
                                               ![i].early = Early(i)]
            /\ resp' = IF out # "json" /\ Failed = {}
                       THEN Resp(status, valid) ELSE resp
    /\ UNCHANGED <<recVars, reqVars, srvVars, genVars, calls, method, result>>

RECURSIVE Extend(_, _)
\* ret.extend(page results) for the pages i.. of fs, in offset order
Extend(fs, i) ==
    IF i > Len(fs) THEN <<>> ELSE fs[i].results \o Extend(fs, i + 1)

\* every page fetch has completed: the batch is collected in offset order,
\* or the first failure is raised
Collect ==
    /\ pc = "fanout"
    /\ InFlight = {}
    /\ Failed # {} \/ \A i \in DOMAIN futures : futures[i].state = "done"
    /\ IF Failed # {}
       THEN Raise(futures[CHOOSE i \in Failed : futures[i].err # NoError].err)
       ELSE Gen("running", req, iter \o Extend(futures, 1), "stop", FALSE)
            /\ UNCHANGED err
    /\ UNCHANGED <<recVars, reqVars, srvVars, calls, method, add_params, yielded, count,
                   futures, result, resp>>

NoResult == [kind |-> "", value |-> <<>>, status |-> 0, decoded |-> FALSE]
NoHeader == [present |-> FALSE, value |-> <<>>]

\* ------------------------------------ Request.put / post / delete / patch
\* `return self._make_call(verb=verb, data=data)`: one call, classified
MakeCall(verb, data) ==
    /\ \E status \in Statuses, valid \in BOOLEAN :
        LET out == Outcome(verb, status, valid)
        IN  /\ calls' = Append(calls, Call(verb, SelfUrl, {}, None, None, data))
            /\ resp' = Resp(status, valid)
            /\ IF out \in {"True", "json"}
               THEN /\ pc' = "done"
                    /\ result' = [kind |-> out, value |-> <<>>, status |-> status,
                                  decoded |-> out = "json"]
                    /\ UNCHANGED err
               ELSE /\ pc' = "raised"
                    /\ err' = Error(out, status)
                    /\ UNCHANGED result
    /\ method' = verb
    /\ UNCHANGED <<recVars, reqVars, srvVars, add_params, req, first_run, iter, after,
                   yielded, count, futures>>

put ==
    /\ pc = "created"
    /\ MakeCall("put", TRUE)

post ==
    /\ pc = "created"
    /\ MakeCall("post", TRUE)

delete ==
    /\ pc = "created"
    /\ \E data \in BOOLEAN : MakeCall("delete", data)

patch ==
    /\ pc = "created"
    /\ MakeCall("patch", TRUE)

\* ------------------------------------------------------ Request.get_version
\* `req.headers.get("API-Version", "")`
HeaderGet(h) == IF h.present THEN h.value ELSE <<>>

\* `req.ok or req.status_code == 403`
VersionReadableBug(status) == Ok(status)
VersionReadable(status) == Ok(status) \/ status = 403

\* the GET of the base URL get_version issues: its headers carry no token
VersionCall ==
    [verb |-> "get", url |-> BaseUrl(""), params |-> NoParams,
     headers |-> [type |-> "Content-Type", authorization |-> ""], data |-> FALSE]

get_version ==
    /\ pc = "created"
    /\ \E status \in Statuses, valid \in BOOLEAN :
        /\ calls' = <<VersionCall>>
        /\ resp' = Resp(status, valid)
        /\ IF VersionReadable(status)
           THEN /\ pc' = "done"
                /\ result' = [kind |-> "value", value |-> HeaderGet(apiVersion),
                              status |-> status, decoded |-> FALSE]
                /\ UNCHANGED err
           ELSE /\ pc' = "raised"
                /\ err' = Error("RequestError", status)
                /\ UNCHANGED result
    /\ method' = "get_version"
    /\ UNCHANGED <<recVars, reqVars, srvVars, add_params, req, first_run, iter, after,
                   yielded, count, futures>>

\* ------------------------------------------------ packaging.version.parse
Digits == <<"0", "1", "2", "3", "4", "5", "6", "7", "8", "9">>
IsDigit(c) == \E i \in 1..10 : Digits[i] = c
DigitVal(c) == (CHOOSE i \in 1..10 : Digits[i] = c) - 1

RECURSIVE Release(_, _, _, _)
\* the release segment of the version string s (a sequence of characters):
\* dot-separated decimal numbers; <<>> when s is no such string.  cur is the
\* number being read, None before its first digit.
Release(s, i, comps, cur) ==
    IF i > Len(s)
    THEN IF cur = None THEN <<>> ELSE Append(comps, cur)
    ELSE IF s[i] = "."
    THEN IF cur = None THEN <<>> ELSE Release(s, i + 1, Append(comps, cur), None)
    ELSE IF IsDigit(s[i])
    THEN Release(s, i + 1, comps, (IF cur = None THEN 0 ELSE cur) * 10 + DigitVal(s[i]))
    ELSE <<>>

parse(s) == Release(s, 1, <<>>, None)

RECURSIVE StripZeros(_)
\* the comparison key of a release: trailing zeros dropped
StripZeros(r) ==
    IF r # <<>> /\ r[Len(r)] = 0 THEN StripZeros(SubSeq(r, 1, Len(r) - 1)) ELSE r

RECURSIVE TupleGE(_, _, _)
\* a >= b for tuples of numbers, from position i on
TupleGE(a, b, i) ==
    IF i > Len(b) THEN TRUE
    ELSE IF i > Len(a) THEN FALSE
    ELSE IF a[i] # b[i] THEN a[i] > b[i]
    ELSE TupleGE(a, b, i + 1)

\* the order of characters and of strings, character by character
CharOrd(c) == IF IsDigit(c) THEN DigitVal(c) + 1 ELSE 0
RECURSIVE LexGE(_, _, _)
LexGE(a, b, i) ==
    IF i > Len(b) THEN TRUE
    ELSE IF i > Len(a) THEN FALSE
    ELSE IF a[i] # b[i] THEN CharOrd(a[i]) > CharOrd(b[i])
    ELSE LexGE(a, b, i + 1)

\* `version.parse(v) >= version.parse("3.5")` for a version string v that parses
AtLeast35Bug(v) == LexGE(v, <<"3", ".", "5">>, 1)
AtLeast35(v) ==
    TupleGE(StripZeros(parse(v)), StripZeros(parse(<<"3", ".", "5">>)), 1)

\* ------------------------------------------------------ Request.get_openapi
OpenapiCall(suffix) ==
    [verb |-> "get", url |-> BaseUrl(suffix), params |-> NoParams,
     headers |-> [type |-> "Accept,Content-Type", authorization |-> ""],
     data |-> FALSE]

\* get_version, the version comparison, the GET of the URL chosen.  A string
\* that is no version either raises InvalidVersion or (older packaging) parses
\* to a legacy version that is below every release.
get_openapi ==
    /\ pc = "created"
    /\ \E s1 \in Statuses, v1 \in BOOLEAN, s2 \in Statuses, valid \in BOOLEAN,
          legacy \in BOOLEAN :
        LET current == HeaderGet(apiVersion)
            suffix  == IF parse(current) # <<>> /\ AtLeast35(current)
                       THEN "schema/" ELSE "docs/?format=openapi"
        IN  IF ~VersionReadable(s1)
            THEN /\ calls' = <<VersionCall>>
                 /\ resp' = Resp(s1, v1)
                 /\ pc' = "raised"
                 /\ err' = Error("RequestError", s1)
                 /\ UNCHANGED result
            ELSE IF parse(current) = <<>> /\ ~legacy
            THEN /\ calls' = <<VersionCall>>
                 /\ resp' = Resp(s1, v1)
                 /\ pc' = "raised"
                 /\ err' = [kind |-> "InvalidVersion", status |-> s1, decoded |-> FALSE]
                 /\ UNCHANGED result
            ELSE /\ calls' = <<VersionCall, OpenapiCall(suffix)>>
                 /\ resp' = Resp(s2, valid)
                 /\ IF Ok(s2) /\ valid
                    THEN /\ pc' = "done"
                         /\ result' = [kind |-> "json", value |-> <<>>,
                                       status |-> s2, decoded |-> TRUE]
                         /\ UNCHANGED err
                    ELSE /\ pc' = "raised"
                         /\ err' = IF Ok(s2)
                                   THEN [kind |-> "JSONDecodeError", status |-> s2,
                                         decoded |-> TRUE]
                                   ELSE Error("RequestError", s2)
                         /\ UNCHANGED result
    /\ method' = "get_openapi"
    /\ UNCHANGED <<recVars, reqVars, srvVars, add_params, req, first_run, iter, after,
                   yielded, count, futures>>

\* no access made yet
NoAccess == [field |-> "", missing |-> FALSE, hydrated |-> FALSE, gets |-> 0,
             outcome |-> "", value |-> None]
\* no Record under consideration
NoRecord ==
    /\ fields = <<>>
    /\ shallow = <<>>
    /\ url = "absent"
    /\ endpoint = ""
    /\ has_details = FALSE
    /\ detail = <<>>
    /\ gets = [issued |-> 0, ok |-> 0]
    /\ last = NoAccess

\* ================================================================== Record
FieldNames == {"name", "serial", "site"}
\* the fields whose value is a nested object: 1 its brief form, larger values
\* richer forms
Nested == {"site"}
Values == 1..MaxValue
\* a payload: each field absent (None) or with a value
Payloads == [FieldNames -> Values \cup {None}]
\* the `url` of a payload: no such key, null, the empty string, or a URL
UrlValues == {"absent", "null", "", "http://h/api/x/1/"}
Truthy(u) == u \notin {"absent", "null", ""}

\* `self.has_details = False`
InitialDetailsBug == TRUE
InitialDetails == FALSE

\* `_endpoint_from_url(values["url"]) if values and "url" in values and
\* values["url"] else endpoint`
EndpointBug(values, u) ==
    IF u # "absent" THEN "endpoint_from_url" ELSE "endpoint"
Endpoint(values, u) ==
    IF (u # "absent" \/ \E f \in FieldNames : values[f] # None) /\ Truthy(u)
    THEN "endpoint_from_url" ELSE "endpoint"

\* the merge of a detail payload into the fields of a node: absent fields are
\* added, present ones kept; a nested object may give way (replace) to a
\* richer form of itself
MergeBug(local, payload, replace) ==
    [f \in FieldNames |-> IF payload[f] # None THEN payload[f] ELSE local[f]]
Merge(local, payload, replace) ==
    [f \in FieldNames |->
        IF local[f] = None THEN payload[f]
        ELSE IF f \in Nested /\ replace /\ payload[f] > local[f] THEN payload[f]
        ELSE local[f]]

\* Record.__init__(values, api, endpoint), and the detail payload at its url
RecordInit ==
    /\ shallow \in Payloads
    /\ fields = shallow
    /\ url \in UrlValues
    /\ endpoint = Endpoint(shallow, url)
    /\ has_details = InitialDetails
    /\ detail \in Payloads
    /\ gets = [issued |-> 0, ok |-> 0]
    /\ last = NoAccess

\* an access to field f by name: the value when present; else, on a node not
\* yet hydrated that has a url, one GET of the url, the merge of its payload,
\* hydrated, and the lookup once more; else AttributeError
Access ==
    /\ \E f \in FieldNames :
           LET was == [field |-> f, missing |-> fields[f] = None,
                       hydrated |-> has_details, gets |-> 0,
                       outcome |-> "value", value |-> fields[f]]
           IN  IF fields[f] # None
               THEN /\ last' = was
                    /\ UNCHANGED <<fields, has_details, gets>>
               ELSE IF ~has_details /\ Truthy(url)
               THEN /\ gets.issued < MaxGets
                    /\ \E status \in Statuses, valid \in BOOLEAN, replace \in BOOLEAN :
                         LET out    == Outcome("get", status, valid)
                             merged == Merge(fields, detail, replace)
                         IN  IF out = "json"
                             THEN /\ fields' = merged
                                  /\ has_details' = TRUE
                                  /\ gets' = [issued |-> gets.issued + 1,
                                              ok |-> gets.ok + 1]
                                  /\ last' = [was EXCEPT
                                       !.gets = 1,
                                       !.value = merged[f],
                                       !.outcome = IF merged[f] # None THEN "value"
                                                   ELSE "AttributeError"]
                             ELSE /\ gets' = [gets EXCEPT !.issued = @ + 1]
                                  /\ last' = [was EXCEPT !.gets = 1, !.outcome = out]
                                  /\ UNCHANGED <<fields, has_details>>
               ELSE /\ last' = [was EXCEPT !.outcome = "AttributeError"]
                    /\ UNCHANGED <<fields, has_details, gets>>
    /\ UNCHANGED <<shallow, url, endpoint, detail>>
    /\ UNCHANGED <<reqVars, srvVars, genVars, calls, method, futures, result, resp>>

\* ------------------------------------------------------ Request.__init__
\* the base argument: a non-empty string, written as its characters
BaseChars == {"a", "b", "/"}
BaseArgs == UNION {[1..n -> BaseChars] : n \in 1..MaxBase}
\* the key argument: None or a database id
Keys == {None} \cup (0..MaxKey)

\* `if url[-1] != "/": return f"{url}/"`, else the url itself
normalize_url(u) == IF u[Len(u)] # "/" THEN u \o <<"/">> ELSE u

RECURSIVE Format(_)
\* `f"{key}"` of a non-negative integer: its decimal digits
Format(k) ==
    LET digit == <<"0", "1", "2", "3", "4", "5", "6", "7", "8", "9">>
    IN  IF k < 10 THEN <<digit[k + 1]>>
        ELSE Format(k \div 10) \o <<digit[(k % 10) + 1]>>

\* `self.base if not key else f"{self.base}{key}/"`
EffectiveUrl(b, k) ==
    IF k = None \/ k = 0 THEN b ELSE b \o Format(k) \o <<"/">>

\* Request(base, http_session, ..., key=key): base is normalized, the url built
Request ==
    /\ pc = "new"
    /\ base' = normalize_url(base)
    /\ request_url' = EffectiveUrl(base', key)
    /\ pc' = "created"
    /\ UNCHANGED <<recVars, srvVars, key, limit, offset, threading, token, filters,
                   count, calls, method, add_params, req, first_run, iter, after,
                   yielded, err, futures, result, resp>>

\* a Request as constructed, no method of it invoked yet
Constructed ==
    /\ NoRecord
    /\ base = normalize_url(<<"a">>)
    /\ key = None
    /\ request_url = EffectiveUrl(base, key)
    /\ token \in Tokens
    /\ filters \in Filters
    /\ count = None
    /\ calls = <<>>
    /\ method = ""
    /\ pc = "created"
    /\ req = NoReq
    /\ first_run = FALSE
    /\ iter = <<>>
    /\ after = "stop"
    /\ yielded = <<>>
    /\ err = NoError
    /\ futures = <<>>
    /\ result = NoResult
    /\ resp = NoResp

\* The Request as constructed and the collection served: every small
\* combination, and the 25-item collection in pages of 10 of the examples.
Init ==
    /\ Constructed
    /\ \/ /\ srvCount \in Counts
          /\ srvPage \in PageSizes
          /\ limit \in Limits
          /\ offset \in Offsets
       \/ /\ srvCount = 25
          /\ srvPage = 10
          /\ limit \in {None, 10}
          /\ offset \in {None, 10}
    /\ threading \in BOOLEAN
    /\ srvShape \in Shapes
    /\ add_params \in Extras
    /\ apiVersion = NoHeader

Next ==
    \/ Start
    \/ Yield
    \/ FollowUp
    \/ Exhaust
    \/ Submit
    \/ Complete
    \/ Collect

Spec == Init /\ [][Next]_vars

\* the API-Version headers the session may answer with
VersionStrings ==
    { <<>>, <<"x">>, <<"4">>,
      <<"3", ".", "4">>, <<"3", ".", "5">>, <<"3", ".", "1", "0">>,
      <<"3", ".", "5", ".", "0">>, <<"3", ".", "4", ".", "9">>,
      <<"2", ".", "1", "1">> }
ApiHeaders == {NoHeader} \cup {[present |-> TRUE, value |-> v] : v \in VersionStrings}

\* A Request constructed for one call, of any method, against a small
\* collection and a session that announces its API version.
CallInit ==
    /\ Constructed
    /\ srvCount \in {0, 3}
    /\ srvPage = 1
    /\ limit = None
    /\ offset = None
    /\ threading \in BOOLEAN
    /\ srvShape \in Shapes
    /\ add_params = {}
    /\ apiVersion \in ApiHeaders

CallNext ==
    \/ Next
    \/ put
    \/ post
    \/ delete
    \/ patch
    \/ get_version
    \/ get_openapi

CallSpec == CallInit /\ [][CallNext]_vars

\* a Request no method of which is under consideration
NoRequest ==
    /\ base = normalize_url(<<"a">>) /\ key = None
    /\ request_url = EffectiveUrl(base, key)
    /\ limit = None /\ offset = None /\ threading = FALSE
    /\ token = "" /\ filters = {} /\ count = None
    /\ srvCount = 0 /\ srvPage = 1 /\ srvShape = "object" /\ apiVersion = NoHeader
    /\ calls = <<>> /\ method = "" /\ pc = "created" /\ add_params = {}
    /\ req = NoReq /\ first_run = FALSE /\ iter = <<>> /\ after = "stop"
    /\ yielded = <<>> /\ err = NoError /\ futures = <<>> /\ result = NoResult
    /\ resp = NoResp

RecordStart == NoRequest /\ RecordInit

\* The arguments of a construction, before Request.__init__ has run.
UrlInit ==
    /\ NoRecord
    /\ base \in BaseArgs
    /\ key \in Keys
    /\ request_url = <<>>
    /\ pc = "new"
    /\ limit = None /\ offset = None /\ threading = FALSE
    /\ token = "" /\ filters = {} /\ count = None
    /\ srvCount = 0 /\ srvPage = 1 /\ srvShape = "object" /\ apiVersion = NoHeader
    /\ calls = <<>> /\ method = "" /\ add_params = {}
    /\ req = NoReq /\ first_run = FALSE /\ iter = <<>> /\ after = "stop"
    /\ yielded = <<>> /\ err = NoError /\ futures = <<>> /\ result = NoResult
    /\ resp = NoResp

UrlNext == Request

UrlSpec == UrlInit /\ [][UrlNext]_vars

RecordNext == Access

RecordSpec == RecordStart /\ [][RecordNext]_vars
\* =================================================================== claims
\* the collection in server order, and what a sequence is a prefix of
ServerOrder == [i \in 1..srvCount |-> i - 1]
IsPrefix(a, b) == Len(a) <= Len(b) /\ \A i \in 1..Len(a) : a[i] = b[i]

\* the page the first call of get() is answered with
FirstPage == Page(FirstLimit, FirstOffset)

\* C1: in sequential mode (threading off, no offset configured) get(),
\* consumed to exhaustion against a server that honours limit/offset, yields
\* exactly `count` items, each once, in server order, for every collection
\* size, page size and configured limit: what has been yielded is at every
\* moment a prefix of the server order, and the whole of it at exhaustion.
C1_SequentialYieldsAll ==
    (srvShape = "collection" /\ ~threading /\ offset = None)
        => /\ IsPrefix(yielded, ServerOrder)
           /\ pc = "done" => yielded = ServerOrder

C1_Witness ==
    /\ srvShape = "collection" /\ ~threading /\ offset = None
    /\ srvCount = 25 /\ srvPage = 10 /\ limit = 10
    /\ pc = "done" /\ Len(yielded) = 25 /\ Len(calls) = 3

C3_OffsetPinsOnePage ==
    (srvShape = "collection" /\ offset # None /\ pc # "created")
        => /\ Len(calls) = 1
           /\ futures = <<>>
           /\ IsPrefix(yielded, FirstPage.results)
           /\ pc = "done" => yielded = FirstPage.results
           /\ (pc = "done" /\ srvCount = 25 /\ offset = 10 /\ limit = 10
                 /\ add_params = {})
                 => yielded = [i \in 1..10 |-> 9 + i]

C3_Witness ==
    /\ srvShape = "collection" /\ offset = 10 /\ limit = 10 /\ srvCount = 25
    /\ threading /\ add_params = {}
    /\ FirstPage.next # <<>>
    /\ pc = "done" /\ yielded = [i \in 1..10 |-> 9 + i] /\ Len(calls) = 1

\* C4: when the first page of a paginated collection has `next` = null,
\* get() yields exactly that page's items and issues no call beyond the
\* first, in sequential and in concurrent mode.
C4_NullNextStops ==
    (srvShape = "collection" /\ FirstPage.next = <<>> /\ pc # "created")
        => /\ Len(calls) = 1
           /\ futures = <<>>
           /\ IsPrefix(yielded, FirstPage.results)
           /\ pc = "done" => yielded = FirstPage.results

C4_Witness ==
    /\ srvShape = "collection" /\ FirstPage.next = <<>> /\ offset = None
    /\ threading /\ srvCount = 2 /\ Len(FirstPage.results) = 2
    /\ pc = "done" /\ yielded = FirstPage.results /\ Len(calls) = 1
\* an access that ended in a failed hydration GET
HydrationFailed == last.outcome \in {"RequestError", "ContentError"}

C7_ConflictOnlyOnPost ==
    method \in Verbs
        => /\ (pc = "raised" /\ err.status = 409)
                => /\ err.kind = "AllocationError" <=> method = "post"
                   /\ method # "post" => err.kind = "RequestError"
           /\ err.kind = "AllocationError" => err.status = 409
           /\ pc = "done" => result.status # 409

C7_Witness ==
    /\ method = "post" /\ pc = "raised"
    /\ err.status = 409 /\ err.kind = "AllocationError"
    /\ Len(calls) = 1 /\ calls[1].verb = "post"

\* C8 as stated: delete issues exactly one call, returns True exactly on a
\* 2xx response, raises RequestError on every other response, and never
\* returns or decodes a response body.
C8_DeleteNeverDecodes ==
    method = "delete"
        => /\ Len(calls) = 1 /\ calls[1].verb = "delete"
           /\ pc \in {"done", "raised"}
           /\ pc = "done" => /\ result.kind = "True" /\ Ok(result.status)
                             /\ ~result.decoded
           /\ pc = "raised" => /\ err.kind = "RequestError" /\ ~Ok(err.status)
                               /\ ~err.decoded

\* C8 as amended: delete issues exactly one call, returns True exactly on a
\* 2xx response, without decoding or returning the body, and raises
\* RequestError on every other response; the RequestError decodes the body
\* for its message unless the status is 404.
C8_DeleteTrueOrRaises ==
    method = "delete"
        => /\ Len(calls) = 1 /\ calls[1].verb = "delete"
           /\ pc \in {"done", "raised"}
           /\ pc = "done" => /\ result.kind = "True" /\ Ok(result.status)
                             /\ ~result.decoded
           /\ pc = "raised" => /\ err.kind = "RequestError" /\ ~Ok(err.status)
                               /\ err.decoded <=> err.status # 404

C8_Witness ==
    /\ method = "delete" /\ pc = "raised"
    /\ err.kind = "RequestError" /\ err.status = 409 /\ err.decoded
    /\ Len(calls) = 1

\* the version strings that are 3.5 or later, component by component
SchemaVersions ==
    { <<"4">>, <<"3", ".", "5">>, <<"3", ".", "1", "0">>,
      <<"3", ".", "5", ".", "0">> }

\* C9: get_openapi requests {base}schema/ exactly when the detected version
\* is 3.5 or later by component-wise numeric comparison, {base}docs/?format=
\* openapi otherwise: 3.4 goes to docs, 3.5 and 3.10 go to schema.
C9_OpenapiUrlByVersion ==
    (method = "get_openapi" /\ Len(calls) = 2)
        => /\ calls[1].url = BaseUrl("")
           /\ calls[2].url =
                IF apiVersion.present /\ apiVersion.value \in SchemaVersions
                THEN BaseUrl("schema/") ELSE BaseUrl("docs/?format=openapi")
           /\ apiVersion.value = <<"3", ".", "4">>
                => calls[2].url = BaseUrl("docs/?format=openapi")
           /\ apiVersion.value \in {<<"3", ".", "5">>, <<"3", ".", "1", "0">>}
                => calls[2].url = BaseUrl("schema/")

C9_Witness ==
    /\ method = "get_openapi" /\ pc = "done"
    /\ apiVersion.value = <<"3", ".", "1", "0">>
    /\ Len(calls) = 2 /\ calls[2].url = BaseUrl("schema/")

C11_TokenOnEveryCall ==
    token # ""
        => \A i \in DOMAIN calls :
               calls[i].headers.authorization = "Token " \o token

\* the methods whose result is the decoded body of the response
Decoding == {"get", "post", "put", "patch", "get_openapi"}

\* C12: for every call that returns a decoded body (get, post, put, patch and
\* get_openapi), a success (2xx) response whose body is not valid JSON raises
\* ContentError, and never another kind of error or a value.  (While the
\* page fetches of a fan-out are in flight the error is held by its fetch.)
C12_BadBodyIsContentError ==
    (/\ method \in Decoding
     /\ method = "get_openapi" => Len(calls) = 2
     /\ resp.ok /\ ~resp.valid)
        => \/ pc = "raised" /\ err.kind = "ContentError"
           \/ /\ pc = "fanout"
              /\ \E i \in Failed : futures[i].err.kind = "ContentError"

\* ceil(c / p) for p >= 1
Ceil(c, p) == (c + p - 1) \div p

\* a get() in concurrent mode: threading on, no offset configured
Concurrent == srvShape = "collection" /\ threading /\ offset = None

\* C13: in concurrent mode the page count computed from the first response
\* is ceil(count / pageSize) for every count and every observed page size
\* >= 1, exact multiples included, so the offsets requested are exactly
\* pageSize, 2*pageSize, ..., (pages-1)*pageSize and no offset >= count is
\* ever requested.
C13_PagesIsCeiling ==
    (Concurrent /\ pc = "fanout")
        => LET page_size == Len(req.results)
               pages == Ceil(req.count, page_size)
           IN  /\ Len(futures) = pages - 1
               /\ \A i \in DOMAIN futures :
                      /\ futures[i].offset = i * page_size
                      /\ futures[i].offset < req.count

\* C14: in concurrent mode, when the first page has a `next` and exactly one
\* more page remains (pageSize < count <= 2*pageSize), that page is fetched
\* by a single sequential call to the server-provided `next` URL and no
\* concurrent fan-out is dispatched; the fan-out is used only when two or
\* more pages remain.
C14_OneMorePageIsSequential ==
    LET page_size == Len(FirstPage.results)
    IN  (/\ Concurrent /\ method = "get" /\ pc # "raised"
         /\ FirstPage.next # <<>>
         /\ page_size < srvCount /\ srvCount <= 2 * page_size)
            => /\ pc # "fanout"
               /\ futures = <<>>
               /\ Len(calls) = 2
               /\ calls[2].url = NextUrl(FirstPage.next)

\* a get() in sequential mode: threading off, no offset configured
Sequential == srvShape = "collection" /\ threading = FALSE /\ offset = None

\* the response a limit/offset server gave to the call c
RespOf(c) == Serve(c.url, c.params)

\* The call sequence of sequential mode, the first follow-up asking for the
\* limit lim: a call follows only a response whose `next` is set; the second
\* call re-requests the own URL with the filters, limit lim and the number of
\* results of the first page as offset; every later call requests the `next`
\* URL of the response before it, with no query parameters; the sequence is
\* over at the first response whose `next` is empty.
SequentialCalls(lim) ==
    (Sequential /\ method = "get")
        => /\ \A i \in 2..Len(calls) : RespOf(calls[i - 1]).next # <<>>
           /\ Len(calls) >= 2
                => /\ calls[2].url = SelfUrl
                   /\ calls[2].params =
                          [filters |-> filters, extra |-> {}, limit |-> lim,
                           offset |-> Len(RespOf(calls[1]).results)]
           /\ \A i \in 3..Len(calls) :
                  /\ calls[i].url # SelfUrl
                  /\ calls[i].url = NextUrl(RespOf(calls[i - 1]).next)
                  /\ calls[i].params = NoParams
           /\ pc = "done" => RespOf(calls[Len(calls)]).next = <<>>

\* C15 (as claimed): in sequential mode the call sequence is the first call,
\* then, if `next` is set, exactly one follow-up that re-requests the own URL
\* with the filters plus limit = the configured limit (the response count if
\* none is configured) and offset = the number of results of the first page,
\* then follow-ups that request the server-provided `next` URL verbatim with
\* no filters or extra parameters, until the first response with no `next`.
C15_ConfiguredLimitOrCount ==
    SequentialCalls(IF limit = None THEN srvCount ELSE limit)

\* C15 (amended): the same call sequence, the first follow-up asking for the
\* configured limit when it is non-zero and for the response count when no
\* limit, or a limit of 0, is configured.
C15_SequentialCallSequence ==
    SequentialCalls(IF limit = None \/ limit = 0 THEN srvCount ELSE limit)

C15_Witness ==
    /\ Sequential /\ method = "get" /\ pc = "done"
    /\ limit = 1 /\ filters = {"name"}
    /\ Len(calls) >= 3
    /\ calls[2].params.limit = 1 /\ calls[2].params.offset = 1
    /\ calls[3].url = NextUrl(<<1, 2>>)

RECURSIVE Delivered(_)
\* the number of items in the pages the first k calls were answered with
Delivered(k) ==
    IF k = 0 THEN 0 ELSE Len(RespOf(calls[k]).results) + Delivered(k - 1)

\* C16: in sequential mode get() is lazy: no HTTP call is issued before the
\* caller requests the first item; the call for page k+1 is issued only after
\* every item of pages 1..k has been delivered and the caller asks for one
\* more; a caller that stops consuming within page k (the generator is
\* suspended on an item of page k) has caused exactly k calls.
C16_SequentialIsLazy ==
    Sequential
        => /\ pc = "created" => calls = <<>>
           /\ calls # <<>>
                => /\ Delivered(Len(calls) - 1) <= Len(yielded)
                   /\ Len(yielded) <= Delivered(Len(calls))
           /\ pc = "suspended"
                => /\ calls # <<>>
                   /\ Delivered(Len(calls) - 1) < Len(yielded)
                   /\ \E j \in DOMAIN RespOf(calls[Len(calls)]).results :
                          RespOf(calls[Len(calls)]).results[j]
                              = yielded[Len(yielded)]

C16_Witness ==
    /\ Sequential /\ pc = "suspended"
    /\ Len(calls) = 2 /\ Len(yielded) = 2
    /\ RespOf(calls[1]).results = <<0>>
    /\ RespOf(calls[2]).results = <<1>>
    /\ RespOf(calls[2]).next # <<>>

\* C17: in concurrent mode with a multi-page collection no item, not even one
\* of the first page, is yielded until every dispatched page fetch has
\* completed, and if any page fetch fails the whole get raises that failure
\* having yielded no item.
C17_AllOrNothing ==
    (Concurrent /\ futures # <<>>)
        => /\ pc = "fanout" => yielded = <<>>
           /\ yielded # <<>>
                => \A i \in DOMAIN futures : futures[i].state = "done"
           /\ Failed # {}
                => /\ yielded = <<>>
                   /\ pc \in {"fanout", "raised"}
                   /\ pc = "raised"
                        => /\ err # NoError
                           /\ \E i \in Failed : err = futures[i].err

C17_Witness ==
    /\ Concurrent /\ pc = "raised" /\ yielded = <<>>
    /\ Len(futures) >= 2
    /\ \E i \in DOMAIN futures : futures[i].state = "done"
    /\ \E i \in Failed : err = futures[i].err /\ err.kind = "RequestError"

\* C18: when the first response is a bare JSON object (no paginated
\* collection, no list), get() yields exactly one element, the object itself,
\* issues exactly one HTTP call, and records count = 1 on the Request however
\* many fields the object has.
C18_BareObjectCountsOne ==
    (srvShape = "object" /\ method = "get" /\ pc # "raised")
        => /\ Len(calls) = 1
           /\ count = 1
           /\ IsPrefix(yielded, <<0>>)
           /\ pc = "done" => yielded = <<0>>

\* C19: for every constructed Request, base ends with a trailing slash, and
\* the effective URL is base + key + "/" whenever a key is supplied (the key 0
\* included) and is exactly base only when no key is supplied.
C19_UrlFromBaseAndKey ==
    pc # "new"
        => /\ base[Len(base)] = "/"
           /\ key # None => request_url = base \o Format(key) \o <<"/">>
           /\ key = None => request_url = base

\* C20: on construction a Record starts un-hydrated (has_details = False),
\* and its endpoint is derived from the payload's `url` if and only if the
\* payload is non-empty and contains a non-empty `url` field; in every other
\* case (no payload, no `url` key, `url` null or empty) the endpoint is
\* exactly the caller-supplied endpoint.
C20_EndpointFromUrl ==
    (last = NoAccess /\ gets.issued = 0 /\ fields = shallow)
        => /\ has_details = FALSE
           /\ endpoint = "endpoint_from_url" <=> url = "http://h/api/x/1/"
           /\ url \in {"absent", "null", ""} => endpoint = "endpoint"

C20_Witness ==
    /\ last = NoAccess /\ gets.issued = 0
    /\ url = "" /\ shallow["name"] # None
    /\ endpoint = "endpoint" /\ has_details = FALSE
====
